---- MODULE Spec2Model ----
(***************************************************************************)
(* FetchRoute: the route optimizer of src/utils/routeOptimization.js       *)
(* (calculateDistance, nearestNeighbor, formatAppointmentsForRouting,      *)
(* optimizeRoute) as a state machine.  One call is followed from its       *)
(* entry to its return or throw; the nearest-neighbour loop advances one   *)
(* outer iteration per step, and the waypoint array literal of             *)
(* optimizeRoute is evaluated element by element, left to right.           *)
(*                                                                         *)
(* Values.  A JavaScript null/undefined object is Null; an optional number *)
(* or Date is a sequence, <<>> when absent and <<v>> when present.  A Date *)
(* is its getTime() value in milliseconds.  Distances are kept in metres   *)
(* (the code's kilometres times 1000, rounded).                            *)
(***************************************************************************)
EXTENDS Integers, Sequences, FiniteSets, TLC

\* ------------------------------------------------------------------ bounds
\* Longest appointment / destination list that is enumerated.
MaxStops == 3

\* ------------------------------------------------------------ JS values
Null == [isNull |-> TRUE]

None == <<>>

Some(v) == <<v>>

IsSome(o) == Len(o) = 1

Get(o) == o[1]

\* The initial value of shortestDistance; larger than every table distance.
Infinity == 2000000000

\* ------------------------------------------------------ calculateDistance
\* Coordinates lie on a one-degree grid: latitude 37..39, longitude -123..-121.
Coord(lat, lng) == [latitude |-> lat, longitude |-> lng]

\* sin(d/2)^2 for a difference of d degrees, scaled by 10^8.
SinHalfSq(d) ==
  CASE d = 0 -> 0
    [] d = 1 \/ d = -1 -> 7615
    [] d = 2 \/ d = -2 -> 30459

\* cos of a latitude in degrees, scaled by 10^4.
CosDeg(lat) ==
  CASE lat = 37 -> 7986
    [] lat = 38 -> 7880
    [] lat = 39 -> 7771

\* The cosine of the first latitude used for both points.
HaversineAOneLatitude(coord1, coord2) ==
  LET dLat == coord2.latitude - coord1.latitude
      dLng == coord2.longitude - coord1.longitude
  IN  SinHalfSq(dLat)
      + (((CosDeg(coord1.latitude) * CosDeg(coord1.latitude)) \div 10000)
           * SinHalfSq(dLng)) \div 10000

\* The haversine term a, scaled by 10^8.
HaversineA(coord1, coord2) ==
  LET dLat == coord2.latitude - coord1.latitude
      dLng == coord2.longitude - coord1.longitude
  IN  SinHalfSq(dLat)
      + (((CosDeg(coord1.latitude) * CosDeg(coord2.latitude)) \div 10000)
           * SinHalfSq(dLng)) \div 10000

\* R * 2 * atan2(sqrt(a), sqrt(1-a)) with R = 6371 km, in metres, at the
\* values of a that the latitudes and the differences of the grid produce.
ArcMetres(a) ==
  CASE a = 0 -> 0
    [] a = 4597 -> 86414
    [] a = 4728 -> 87622
    [] a = 4856 -> 88804
    [] a = 7615 -> 111195
    [] a = 12277 -> 141197
    [] a = 12406 -> 141936
    [] a = 18391 -> 172826
    [] a = 18911 -> 175242
    [] a = 19423 -> 177605
    [] a = 26265 -> 206524
    [] a = 26779 -> 208542
    [] a = 30459 -> 222390
    [] a = 35184 -> 239025
    [] a = 49358 -> 283122
    [] a = 12212 -> 140812
    [] a = 12343 -> 141565
    [] a = 12471 -> 142297
    [] a = 26006 -> 205491
    [] a = 26526 -> 207536
    [] a = 27038 -> 209529
    [] a = 35056 -> 238586
    [] a = 35315 -> 239465
    [] a = 48850 -> 281647
    [] a = 49882 -> 284607

\* An absent coordinate taken to be as far away as a point can be: half the
\* circumference.
calculateDistanceAbsentFar(coord1, coord2) ==
  IF coord1 = Null \/ coord2 = Null
    THEN 20015000
    ELSE ArcMetres(HaversineA(coord1, coord2))

\* if (!coord1 || !coord2) return 0; otherwise the Haversine distance.
calculateDistance(coord1, coord2) ==
  IF coord1 = Null \/ coord2 = Null
    THEN 0
    ELSE ArcMetres(HaversineA(coord1, coord2))

\* ------------------------------------------------------------------ inputs
\* The default starting point of RoutesScreen.handleCreateRoute, on the grid.
HomeCoord == Coord(38, -122)

StartWith(coords) ==
  [name |-> "Home/Office", address |-> "Default Location",
   coordinates |-> coords, type |-> "start"]

\* A starting point with coordinates, one without, and no starting point.
StartingPoints == {StartWith(HomeCoord), StartWith(Null), Null}

\* Two stops east and west of home at the same distance, one north, one
\* south-west, and one at home itself.
StopCoords ==
  {Coord(38, -121), Coord(38, -123), Coord(39, -122), Coord(37, -123),
   HomeCoord}

\* Scheduled times of day, in milliseconds: 09:00 and 10:30.
NineAM == 9 * 3600000

HalfPastTen == 10 * 3600000 + 30 * 60000

ClientAt(coords) ==
  [name |-> "client", address |-> [formatted |-> "street", coordinates |-> coords]]

\* Appointment records as getAppointmentsForRouting delivers them, before
\* their id is set: located ones, with and without a duration or a date,
\* one with a negative duration (addAppointment and updateAppointment store
\* any truthy duration), and ones whose client, address or coordinates are
\* missing.
AppointmentKinds ==
  { [client |-> ClientAt(Coord(38, -121)), date |-> Some(NineAM), duration |-> Some(60)],
    [client |-> ClientAt(Coord(38, -123)), date |-> Some(HalfPastTen), duration |-> Some(30)],
    [client |-> ClientAt(Coord(39, -122)), date |-> Some(NineAM), duration |-> None],
    [client |-> ClientAt(HomeCoord), date |-> Some(HalfPastTen), duration |-> Some(60)],
    [client |-> ClientAt(Coord(37, -123)), date |-> None, duration |-> Some(30)],
    [client |-> ClientAt(Coord(39, -122)), date |-> Some(HalfPastTen), duration |-> Some(-30)],
    [client |-> ClientAt(Null), date |-> Some(NineAM), duration |-> Some(60)],
    [client |-> [name |-> "client", address |-> Null], date |-> Some(NineAM), duration |-> Some(60)],
    [client |-> Null, date |-> Some(HalfPastTen), duration |-> Some(30)] }

\* The appointment at position i of the list; its id is its position.
Appointment(i, kind) ==
  [id |-> i, clientId |-> i, client |-> kind.client, date |-> kind.date,
   duration |-> kind.duration]

\* A stop handed directly to nearestNeighbor; its coordinates may be absent.
DirectStop(i, coords) ==
  [id |-> i, appointmentId |-> i, clientId |-> i, time |-> Some(NineAM),
   address |-> "street", coordinates |-> coords, duration |-> Some(60)]

SeqsUpTo(S, n) == UNION { [1..k -> S] : k \in 0..n }

AppointmentLists ==
  { [i \in DOMAIN ks |-> Appointment(i, ks[i])] : ks \in SeqsUpTo(AppointmentKinds, MaxStops) }

DestinationLists ==
  { [i \in DOMAIN cs |-> DirectStop(i, cs[i])] : cs \in SeqsUpTo(StopCoords \cup {Null}, MaxStops) }

\* Values of new Date() during one call: the clock may tick between two reads.
Clock == {50000000, 50000001}

\* ------------------------------------------------------------------- state
VARIABLES
  entry,           \* the exported function that was called
  pc,              \* position inside the call
  outcome,         \* "running", "returned" or "threw"
  error,           \* the thrown error, Null while none
  userStartPoint,  \* the startingPoint / userStartPoint argument
  heap,            \* the arrays: appointments, destinations, unvisited
  unvisitedRef,    \* the array the local `unvisited` refers to
  callerBefore,    \* the caller's array as it was when the call began
  currentPoint,    \* nearestNeighbor's currentPoint
  route,           \* nearestNeighbor's route
  totalDistance,   \* nearestNeighbor's totalDistance, metres
  travelTime,      \* optimizeRoute's travelTimeInMinutes
  waypoints,       \* the elements of the waypoints literal evaluated so far
  result,          \* the returned value, Null while none
  runs,            \* how many times the caller has made the call
  previous,        \* what the caller's first call produced, Null while none
  coord1,          \* a caller of calculateDistance: its first coordinate
  coord2,          \* its second coordinate
  forward,         \* calculateDistance(coord1, coord2), None until measured
  backward,        \* calculateDistance(coord2, coord1), None until measured
  appointmentsCollection,  \* appointment documents by id
  petsCollection,          \* pet documents by id
  clientsCollection,       \* client documents by id
  routesCollection,        \* route documents in the order they were added
  calls,                   \* each caller's operation in progress
  started,                 \* how many operations the callers have started
  returned,                \* the ids whose deleteAppointment has returned
  screens                  \* each screen's React state and handler position

vars ==
  << entry, pc, outcome, error, userStartPoint, heap, unvisitedRef,
     callerBefore, currentPoint, route, totalDistance, travelTime,
     waypoints, result, runs, previous, coord1, coord2, forward, backward,
     appointmentsCollection, petsCollection, clientsCollection,
     routesCollection, calls, started, returned, screens >>

\* The state of a caller that only measures distances.
measureVars == << coord1, coord2, forward, backward >>

\* The state of a call of nearestNeighbor or optimizeRoute.
routeVars ==
  << outcome, error, userStartPoint, heap, unvisitedRef, callerBefore,
     currentPoint, route, totalDistance, travelTime, waypoints, result,
     runs, previous >>

\* The state of the store, of the operations on it and of the screens.
storeVars ==
  << appointmentsCollection, petsCollection, clientsCollection,
     routesCollection, calls, started, returned, screens >>

\* The state of the optimizer and of its callers.
optimizerVars == << entry, pc, routeVars, measureVars >>

\* The array the caller passed in.
callerRef == IF entry = "optimizeRoute" THEN "appointments" ELSE "destinations"

unvisited == heap[unvisitedRef]

\* ------------------------------------------------------- the store at rest
\* The documents the collections start with: two scheduled appointments of
\* today, each for a pet of its own, both pets of one located client.
InitialAppointments ==
  [a \in {1, 2} |-> [petId |-> a, clientId |-> 1, date |-> Some(NineAM),
                     duration |-> Some(60)]]

InitialPets == [p \in {1, 2} |-> [clientId |-> 1]]

InitialClients == [c \in {1} |-> ClientAt(Coord(38, -121))]

\* Clients of the models that run one operation at a time each.
Callers == {"first", "second"}

\* Two mounted RoutesScreens of the same user.
Screens == {"phone", "tablet"}

\* The operations the callers start are counted up to this many.
MaxOperations == 3

\* currentUser.uid and todayDate of the screens and callers.
CurrentUser == "uid"

TodayDate == "today"

Idle == [op |-> "idle"]

\* A screen before its first render has finished loading.
Mounting ==
  [pc |-> "loading", loading |-> TRUE, optimizing |-> FALSE, route |-> Null,
   snapshot |-> <<>>, routeData |-> Null, newRoute |-> Null,
   threw |-> FALSE, created |-> FALSE, routeBefore |-> Null, overlapped |-> FALSE]

\* No store is in use: the state of the store variables in the
\* specifications of the optimizer alone.
StoreIdle ==
  /\ appointmentsCollection = << >>
  /\ petsCollection = << >>
  /\ clientsCollection = << >>
  /\ routesCollection = << >>
  /\ calls = [c \in Callers |-> Idle]
  /\ started = 0
  /\ returned = {}
  /\ screens = [s \in Screens |-> Mounting]

\* No call of the optimizer is followed step by step.
OptimizerIdle ==
  /\ pc = "idle"
  /\ outcome = "running"
  /\ error = Null
  /\ runs = 1
  /\ previous = Null
  /\ userStartPoint = Null
  /\ heap = [appointments |-> <<>>, destinations |-> <<>>, unvisited |-> <<>>, none |-> <<>>]
  /\ unvisitedRef = "none"
  /\ callerBefore = <<>>
  /\ currentPoint = Null
  /\ route = <<>>
  /\ totalDistance = 0
  /\ travelTime = 0
  /\ waypoints = <<>>
  /\ result = Null
  /\ coord1 = Null
  /\ coord2 = Null
  /\ forward = None
  /\ backward = None

InitCommon ==
  /\ outcome = "running"
  /\ error = Null
  /\ runs = 1
  /\ previous = Null
  /\ userStartPoint \in StartingPoints
  /\ unvisitedRef = "none"
  /\ currentPoint = Null
  /\ route = <<>>
  /\ totalDistance = 0
  /\ travelTime = 0
  /\ waypoints = <<>>
  /\ result = Null
  /\ coord1 = Null
  /\ coord2 = Null
  /\ forward = None
  /\ backward = None
  /\ StoreIdle

\* optimizeRoute(appointments, userStartPoint) has just been called.
InitOptimize ==
  /\ entry = "optimizeRoute"
  /\ pc = "format"
  /\ \E as \in AppointmentLists :
       /\ heap = [appointments |-> as, destinations |-> <<>>, unvisited |-> <<>>, none |-> <<>>]
       /\ callerBefore = as
  /\ InitCommon

\* nearestNeighbor(startingPoint, destinations) has just been called.
InitDirect ==
  /\ entry = "nearestNeighbor"
  /\ pc = "nn_enter"
  /\ \E ds \in DestinationLists :
       /\ heap = [appointments |-> <<>>, destinations |-> ds, unvisited |-> <<>>, none |-> <<>>]
       /\ callerBefore = ds
  /\ InitCommon

Init == InitOptimize \/ InitDirect

\* ------------------------------------------------------------- throwing
ValidationError(message, at) == [name |-> "Error", message |-> message, at |-> at]

TypeError(message) == [name |-> "TypeError", message |-> message]

\* An exception leaves the call: nothing is returned.
Throw(err) ==
  /\ outcome' = "threw"
  /\ error' = err
  /\ result' = Null
  /\ pc' = "done"

\* ------------------------------------------- formatAppointmentsForRouting
HasCoordinatesUnchecked(appointment) ==
  /\ appointment.client # Null
  /\ appointment.client.address # Null

HasCoordinates(appointment) ==
  /\ appointment.client # Null
  /\ appointment.client.address # Null
  /\ appointment.client.address.coordinates # Null

\* appointment.duration || 60
DurationOrDefault(duration) ==
  IF IsSome(duration) /\ Get(duration) # 0 THEN duration ELSE Some(60)

FormatStop(appointment) ==
  [id |-> appointment.id,
   appointmentId |-> appointment.id,
   clientId |-> appointment.clientId,
   time |-> appointment.date,
   address |-> appointment.client.address.formatted,
   coordinates |-> appointment.client.address.coordinates,
   duration |-> DurationOrDefault(appointment.duration)]

\* The positions of the appointments the map callback throws on.
Offending(appointments) ==
  { i \in DOMAIN appointments : ~HasCoordinates(appointments[i]) }

\* The last position of S.
Last(S) == CHOOSE x \in S : \A y \in S : x >= y

\* The first position of S: map visits the elements in index order and the
\* first throw ends it.
Min(S) == CHOOSE x \in S : \A y \in S : x <= y

\* optimizeRoute's call of formatAppointmentsForRouting.
FormatAppointments ==
  /\ pc = "format"
  /\ LET appointments == heap["appointments"] IN
       IF userStartPoint = Null \/ userStartPoint.coordinates = Null
         THEN /\ Throw(ValidationError("Invalid starting point. Must include coordinates.", None))
              /\ UNCHANGED heap
         ELSE IF Offending(appointments) # {}
           THEN /\ Throw(ValidationError("Missing coordinates for appointment at",
                                         appointments[Min(Offending(appointments))].date))
                /\ UNCHANGED heap
           ELSE /\ heap' = [heap EXCEPT !["destinations"] =
                              [i \in DOMAIN appointments |-> FormatStop(appointments[i])]]
                /\ pc' = "nn_enter"
                /\ UNCHANGED << outcome, error, result >>
  /\ UNCHANGED << entry, userStartPoint, unvisitedRef, callerBefore, currentPoint,
                  route, totalDistance, travelTime, waypoints, runs, previous >>
  /\ UNCHANGED measureVars
  /\ UNCHANGED storeVars

\* ---------------------------------------------------------- nearestNeighbor
\* No copy is made: `unvisited` is the array that was passed in.
CloneRefAliased(ref) == ref

\* [...destinations]: the array the copy lives in.
CloneRef(ref) == "unvisited"

\* The comparison reversed: a farther stop replaces the one kept so far.
IsShorterReversed(distance, shortestDistance) ==
  shortestDistance = Infinity \/ distance > shortestDistance

\* <= in place of <: a later stop at the same distance replaces the earlier.
IsShorterOrEqual(distance, shortestDistance) == distance <= shortestDistance

\* distance < shortestDistance
IsShorter(distance, shortestDistance) == distance < shortestDistance

\* The scan with `shortestDistance = distance` outside the if.
RECURSIVE ScanFromAlwaysUpdating(_, _, _, _, _)
ScanFromAlwaysUpdating(current, pool, i, nearestPointIndex, shortestDistance) ==
  IF i > Len(pool)
    THEN [nearestPointIndex |-> nearestPointIndex, shortestDistance |-> shortestDistance]
    ELSE LET distance == calculateDistance(current.coordinates, pool[i].coordinates)
         IN  IF distance < shortestDistance
               THEN ScanFromAlwaysUpdating(current, pool, i + 1, i, distance)
               ELSE ScanFromAlwaysUpdating(current, pool, i + 1, nearestPointIndex, distance)

\* The for loop over unvisited, from position i on.  Positions are 1-based
\* here, so the code's initial nearestPointIndex of -1 is 0.
RECURSIVE ScanFrom(_, _, _, _, _)
ScanFrom(current, pool, i, nearestPointIndex, shortestDistance) ==
  IF i > Len(pool)
    THEN [nearestPointIndex |-> nearestPointIndex, shortestDistance |-> shortestDistance]
    ELSE LET distance == calculateDistance(current.coordinates, pool[i].coordinates)
         IN  IF IsShorter(distance, shortestDistance)
               THEN ScanFrom(current, pool, i + 1, i, distance)
               ELSE ScanFrom(current, pool, i + 1, nearestPointIndex, shortestDistance)

FindNearest(current, pool) == ScanFrom(current, pool, 1, 0, Infinity)

\* splice(0, 1): the first element is removed, whichever was chosen.
SpliceFirst(array, index) == [k \in 1..(Len(array) - 1) |-> array[k + 1]]

\* splice(index, 0): nothing is removed.
SpliceNothing(array, index) == array

\* array.splice(index, 1)
Splice(array, index) ==
  [k \in 1..(Len(array) - 1) |-> IF k < index THEN array[k] ELSE array[k + 1]]

\* What follows nearestNeighbor's return statement.
AfterNearestNeighbor(r, d) ==
  IF entry = "nearestNeighbor"
    THEN /\ outcome' = "returned"
         /\ result' = [route |-> r, totalDistance |-> d]
         /\ pc' = "done"
    ELSE /\ pc' = "start_waypoint"
         /\ UNCHANGED << outcome, result >>

\* The guard, the copy of the pool and the initialisations.
NearestNeighborEnter ==
  /\ pc = "nn_enter"
  /\ IF userStartPoint = Null \/ Len(heap["destinations"]) = 0
       THEN /\ AfterNearestNeighbor(<<>>, 0)
            /\ UNCHANGED << heap, unvisitedRef, currentPoint >>
       ELSE /\ unvisitedRef' = CloneRef("destinations")
            /\ heap' = [heap EXCEPT ![unvisitedRef'] = heap["destinations"]]
            /\ currentPoint' = userStartPoint
            /\ pc' = "nn_loop"
            /\ UNCHANGED << outcome, result >>
  /\ route' = <<>>
  /\ totalDistance' = 0
  /\ UNCHANGED << entry, error, userStartPoint, callerBefore, travelTime,
                  waypoints, runs, previous >>
  /\ UNCHANGED measureVars
  /\ UNCHANGED storeVars

\* One iteration of the while loop.
NearestNeighborStep ==
  /\ pc = "nn_loop"
  /\ Len(unvisited) > 0
  /\ LET found == FindNearest(currentPoint, unvisited)
         nearestPoint == unvisited[found.nearestPointIndex]
     IN  /\ route' = Append(route, nearestPoint)
         /\ totalDistance' = totalDistance + found.shortestDistance
         /\ currentPoint' = nearestPoint
         /\ heap' = [heap EXCEPT ![unvisitedRef] = Splice(unvisited, found.nearestPointIndex)]
  /\ UNCHANGED << entry, pc, outcome, error, userStartPoint, unvisitedRef,
                  callerBefore, travelTime, waypoints, result, runs, previous >>
  /\ UNCHANGED measureVars
  /\ UNCHANGED storeVars

\* The loop condition fails: return { route, totalDistance }.
NearestNeighborReturn ==
  /\ pc = "nn_loop"
  /\ Len(unvisited) = 0
  /\ AfterNearestNeighbor(route, totalDistance)
  /\ UNCHANGED << entry, error, userStartPoint, heap, unvisitedRef, callerBefore,
                  currentPoint, route, totalDistance, travelTime, waypoints,
                  runs, previous >>
  /\ UNCHANGED measureVars
  /\ UNCHANGED storeVars

\* ------------------------------------------------------------ optimizeRoute
\* Rounding up by truncating and adding one.
TravelTimeRoundedUp(distance) == distance \div 500 + 1

\* Math.round(totalDistance / 30 * 60): minutes at 30 km/h, which is one
\* minute per 500 metres, halves rounded up.
TravelTimeInMinutes(distance) == (distance + 250) \div 500

\* The whole travel time charged to every leg.
LegShareUndivided(minutes, n) == minutes * 60000

\* (travelTimeInMinutes / route.length) * 60000, as the Date constructor
\* keeps it: whole milliseconds (exact for up to six stops).
LegShareMs(minutes, n) == (minutes * 60000) \div n

\* object.field of an object that may lack the field.
Field(object, name) == IF name \in DOMAIN object THEN object[name] ELSE None

StartWaypoint(departureTime) ==
  [name |-> userStartPoint.name, address |-> userStartPoint.address,
   coordinates |-> userStartPoint.coordinates, type |-> "start",
   arrivalTime |-> None, departureTime |-> departureTime]

EndWaypoint(arrivalTime) ==
  [name |-> userStartPoint.name, address |-> userStartPoint.address,
   coordinates |-> userStartPoint.coordinates, type |-> "end",
   arrivalTime |-> arrivalTime, departureTime |-> None]

\* Every arrival after the first chained to the arrival computed before it.
RECURSIVE ArrivalTimeAccumulating(_, _, _)
ArrivalTimeAccumulating(stops, index, minutes) ==
  IF index = 1
    THEN Get(stops[index].time)
    ELSE ArrivalTimeAccumulating(stops, index - 1, minutes)
           + Get(stops[index - 1].duration) * 60000
           + LegShareMs(minutes, Len(stops))

\* The first arrival estimated like the others, a leg after the scheduled time.
ArrivalTimeEstimated(stops, index, minutes) ==
  IF index = 1
    THEN Get(stops[index].time) + LegShareMs(minutes, Len(stops))
    ELSE Get(stops[index - 1].time) + Get(stops[index - 1].duration) * 60000
           + LegShareMs(minutes, Len(stops))

\* The arrival the map callback computes for the stop at position index.
ArrivalTime(stops, index, minutes) ==
  IF index = 1
    THEN Get(stops[index].time)
    ELSE Get(stops[index - 1].time) + Get(stops[index - 1].duration) * 60000
           + LegShareMs(minutes, Len(stops))

AppointmentWaypoint(stops, index, minutes) ==
  LET stop == stops[index]
      arrivalTime == ArrivalTime(stops, index, minutes)
  IN  [id |-> stop.id, appointmentId |-> stop.appointmentId,
       clientId |-> stop.clientId, time |-> stop.time, address |-> stop.address,
       coordinates |-> stop.coordinates, duration |-> stop.duration,
       type |-> "appointment",
       arrivalTime |-> Some(arrivalTime),
       departureTime |-> Some(arrivalTime + Get(stop.duration) * 60000)]

\* The travel time and the first element of the waypoints literal.
BuildStartWaypoint ==
  /\ pc = "start_waypoint"
  /\ travelTime' = TravelTimeInMinutes(totalDistance)
  /\ IF Len(route) > 0
       THEN IF IsSome(route[1].time)
              THEN /\ waypoints' = << StartWaypoint(
                          Some(Get(route[1].time) - LegShareMs(travelTime', Len(route)))) >>
                   /\ pc' = "appointment_waypoints"
                   /\ UNCHANGED << outcome, error, result >>
              ELSE /\ Throw(TypeError("route[0].time is undefined"))
                   /\ UNCHANGED waypoints
       ELSE /\ \E now \in Clock : waypoints' = << StartWaypoint(Some(now)) >>
            /\ pc' = "appointment_waypoints"
            /\ UNCHANGED << outcome, error, result >>
  /\ UNCHANGED << entry, userStartPoint, heap, unvisitedRef, callerBefore,
                  currentPoint, route, totalDistance, runs, previous >>
  /\ UNCHANGED measureVars
  /\ UNCHANGED storeVars

\* ...route.map(...): one appointment waypoint per stop of the route.
BuildAppointmentWaypoints ==
  /\ pc = "appointment_waypoints"
  /\ IF \E index \in 2..Len(route) : ~IsSome(route[index - 1].time)
       THEN /\ Throw(TypeError("route[index - 1].time is undefined"))
            /\ UNCHANGED waypoints
       ELSE /\ waypoints' = waypoints \o
                 [index \in 1..Len(route) |-> AppointmentWaypoint(route, index, travelTime)]
            /\ pc' = "end_waypoint"
            /\ UNCHANGED << outcome, error, result >>
  /\ UNCHANGED << entry, userStartPoint, heap, unvisitedRef, callerBefore,
                  currentPoint, route, totalDistance, travelTime, runs, previous >>
  /\ UNCHANGED measureVars
  /\ UNCHANGED storeVars

\* The last element of the waypoints literal.  It reads departureTime from
\* the last element of route, which is a stop, not a waypoint.
BuildEndWaypoint ==
  /\ pc = "end_waypoint"
  /\ IF Len(route) > 0
       THEN LET departureTime == Field(route[Len(route)], "departureTime") IN
              IF IsSome(departureTime)
                THEN /\ waypoints' = Append(waypoints, EndWaypoint(
                            Some(Get(departureTime) + LegShareMs(travelTime, Len(route)))))
                     /\ pc' = "return"
                     /\ UNCHANGED << outcome, error, result >>
                ELSE /\ Throw(TypeError("route[route.length - 1].departureTime is undefined"))
                     /\ UNCHANGED waypoints
       ELSE /\ \E now \in Clock :
                 /\ now >= Get(waypoints[1].departureTime)
                 /\ waypoints' = Append(waypoints, EndWaypoint(Some(now)))
            /\ pc' = "return"
            /\ UNCHANGED << outcome, error, result >>
  /\ UNCHANGED << entry, userStartPoint, heap, unvisitedRef, callerBefore,
                  currentPoint, route, totalDistance, travelTime, runs, previous >>
  /\ UNCHANGED measureVars
  /\ UNCHANGED storeVars

\* The return statement of optimizeRoute.
ReturnResult ==
  /\ pc = "return"
  /\ result' = [waypoints |-> waypoints,
                optimizedRoute |-> route,
                appointmentIds |-> [i \in DOMAIN route |-> route[i].appointmentId],
                totalDistance |-> totalDistance,
                estimatedTravelTime |-> travelTime,
                startPoint |-> userStartPoint,
                endPoint |-> userStartPoint]
  /\ outcome' = "returned"
  /\ pc' = "done"
  /\ UNCHANGED << entry, error, userStartPoint, heap, unvisitedRef, callerBefore,
                  currentPoint, route, totalDistance, travelTime, waypoints,
                  runs, previous >>
  /\ UNCHANGED measureVars
  /\ UNCHANGED storeVars

\* ------------------------------------------------------------------ caller
\* The caller keeps what the call produced and makes the same call again,
\* with the same starting point and the same array object.
CallAgain ==
  /\ pc = "done"
  /\ runs = 1
  /\ runs' = 2
  /\ previous' = [outcome |-> outcome, result |-> result, error |-> error,
                   route |-> route, totalDistance |-> totalDistance]
  /\ heap' = [ref \in DOMAIN heap |-> IF ref = callerRef THEN heap[ref] ELSE <<>>]
  /\ pc' = IF entry = "optimizeRoute" THEN "format" ELSE "nn_enter"
  /\ outcome' = "running"
  /\ error' = Null
  /\ result' = Null
  /\ unvisitedRef' = "none"
  /\ currentPoint' = Null
  /\ route' = <<>>
  /\ totalDistance' = 0
  /\ travelTime' = 0
  /\ waypoints' = <<>>
  /\ UNCHANGED << entry, userStartPoint, callerBefore >>
  /\ UNCHANGED measureVars
  /\ UNCHANGED storeVars

Next ==
  \/ FormatAppointments
  \/ NearestNeighborEnter
  \/ NearestNeighborStep
  \/ NearestNeighborReturn
  \/ BuildStartWaypoint
  \/ BuildAppointmentWaypoints
  \/ BuildEndWaypoint
  \/ ReturnResult
  \/ CallAgain

Spec == Init /\ [][Next]_vars

\* --------------------------------------------- nearestNeighbor on its own
\* A direct call of nearestNeighbor, repeated once by its caller.
NextDirect ==
  \/ NearestNeighborEnter
  \/ NearestNeighborStep
  \/ NearestNeighborReturn
  \/ CallAgain

\* nearestNeighbor is synchronous: once called it runs until it returns.
SpecDirectFair ==
  /\ InitDirect
  /\ [][NextDirect]_vars
  /\ WF_vars(NearestNeighborEnter \/ NearestNeighborStep \/ NearestNeighborReturn)

\* ------------------------------------------- calculateDistance on its own
\* Every point of the grid.
GridCoords == { Coord(lat, lng) : lat \in 37..39, lng \in -123..-121 }

\* A caller holds two coordinates, either of which may be absent.
InitDistance ==
  /\ entry = "calculateDistance"
  /\ pc = "measure"
  /\ coord1 \in GridCoords \cup {Null}
  /\ coord2 \in GridCoords \cup {Null}
  /\ forward = None
  /\ backward = None
  /\ outcome = "running"
  /\ error = Null
  /\ runs = 1
  /\ previous = Null
  /\ userStartPoint = Null
  /\ heap = [appointments |-> <<>>, destinations |-> <<>>, unvisited |-> <<>>, none |-> <<>>]
  /\ unvisitedRef = "none"
  /\ callerBefore = <<>>
  /\ currentPoint = Null
  /\ route = <<>>
  /\ totalDistance = 0
  /\ travelTime = 0
  /\ waypoints = <<>>
  /\ result = Null
  /\ StoreIdle

\* calculateDistance(coord1, coord2)
MeasureForward ==
  /\ pc = "measure"
  /\ forward' = Some(calculateDistance(coord1, coord2))
  /\ pc' = "measure_back"
  /\ UNCHANGED << entry, coord1, coord2, backward >>
  /\ UNCHANGED routeVars
  /\ UNCHANGED storeVars

\* calculateDistance(coord2, coord1)
MeasureBackward ==
  /\ pc = "measure_back"
  /\ backward' = Some(calculateDistance(coord2, coord1))
  /\ pc' = "measured"
  /\ UNCHANGED << entry, coord1, coord2, forward >>
  /\ UNCHANGED routeVars
  /\ UNCHANGED storeVars

NextDistance == MeasureForward \/ MeasureBackward

SpecDistance == InitDistance /\ [][NextDistance]_vars

\* ============================================================== the store
\* doc(id).delete()
Remove(collection, id) == [k \in DOMAIN collection \ {id} |-> collection[k]]

\* The elements of a set of numbers in increasing order.
RECURSIVE Ascending(_)
Ascending(S) == IF S = {} THEN <<>> ELSE <<Min(S)>> \o Ascending(S \ {Min(S)})

\* appointmentIds.filter(id => id !== appointmentId)
RECURSIVE Filter(_, _)
Filter(appointmentIds, appointmentId) ==
  IF appointmentIds = <<>>
    THEN <<>>
    ELSE (IF Head(appointmentIds) # appointmentId THEN <<Head(appointmentIds)>> ELSE <<>>)
           \o Filter(Tail(appointmentIds), appointmentId)

Contains(appointmentIds, appointmentId) ==
  \E k \in DOMAIN appointmentIds : appointmentIds[k] = appointmentId

\* ------------------------------------------------------ RouteModel.createRoute
\* The three validations at the head of createRoute.
CreateRouteRejects(routeData) ==
  \/ routeData.routeDate = None
  \/ routeData.userId = None
  \/ ~IsSome(routeData.appointmentIds)
  \/ Len(Get(routeData.appointmentIds)) = 0

\* The document routesCollection.add stores.
RouteDocument(routeData) ==
  [routeDate |-> Get(routeData.routeDate), userId |-> Get(routeData.userId),
   appointmentIds |-> Get(routeData.appointmentIds)]

\* The route data a caller builds from the appointments that exist when it
\* calls: any of them in increasing order, none, or no list at all, and a
\* date and a user that may be missing.
RouteDataInputs ==
  { [routeDate |-> d, userId |-> u, appointmentIds |-> ids] :
      d \in {Some(TodayDate), None}, u \in {Some(CurrentUser), None},
      ids \in {None} \cup { Some(Ascending(S)) : S \in SUBSET DOMAIN appointmentsCollection } }

CanStart(c) == calls[c] = Idle /\ started < MaxOperations

\* createRoute(routeData) up to its await: a rejected call ends here.
CallCreateRoute(c) ==
  /\ CanStart(c)
  /\ started' = started + 1
  /\ \E routeData \in RouteDataInputs :
       calls' = [calls EXCEPT ![c] =
                   IF CreateRouteRejects(routeData)
                     THEN Idle
                     ELSE [op |-> "createRoute", routeData |-> routeData]]
  /\ UNCHANGED << appointmentsCollection, petsCollection, clientsCollection,
                  routesCollection, returned, screens >>
  /\ UNCHANGED optimizerVars

\* routesCollection.add(...) takes effect and createRoute returns.
ResolveAdd(c) ==
  /\ calls[c].op = "createRoute"
  /\ routesCollection' = Append(routesCollection, RouteDocument(calls[c].routeData))
  /\ calls' = [calls EXCEPT ![c] = Idle]
  /\ UNCHANGED << appointmentsCollection, petsCollection, clientsCollection,
                  started, returned, screens >>
  /\ UNCHANGED optimizerVars

\* ---------------------------------------- AppointmentModel.deleteAppointment
\* deleteAppointment(appointmentId) up to the end of its first await: the
\* appointment document is gone.
CallDeleteAppointment(c) ==
  /\ CanStart(c)
  /\ started' = started + 1
  /\ \E appointmentId \in DOMAIN InitialAppointments :
       /\ appointmentsCollection' = Remove(appointmentsCollection, appointmentId)
       /\ calls' = [calls EXCEPT ![c] =
                      [op |-> "deleteAppointment", pc |-> "query",
                       appointmentId |-> appointmentId, updates |-> {}]]
  /\ UNCHANGED << petsCollection, clientsCollection, routesCollection,
                  returned, screens >>
  /\ UNCHANGED optimizerVars

\* The array-contains query returns, and the map callback computes one
\* update per document of the snapshot from the data the snapshot holds.
QueryRoutes(c) ==
  /\ calls[c].op = "deleteAppointment"
  /\ calls[c].pc = "query"
  /\ calls' = [calls EXCEPT ![c].pc = "update",
                            ![c].updates =
                              { [doc |-> r,
                                 appointmentIds |->
                                   Filter(routesCollection[r].appointmentIds,
                                          calls[c].appointmentId)] :
                                  r \in { q \in DOMAIN routesCollection :
                                            Contains(routesCollection[q].appointmentIds,
                                                     calls[c].appointmentId) } }]
  /\ UNCHANGED << appointmentsCollection, petsCollection, clientsCollection,
                  routesCollection, started, returned, screens >>
  /\ UNCHANGED optimizerVars

\* One of the updates of Promise.all takes effect.
UpdateRoute(c) ==
  /\ calls[c].op = "deleteAppointment"
  /\ calls[c].pc = "update"
  /\ \E update \in calls[c].updates :
       /\ routesCollection' =
            [routesCollection EXCEPT ![update.doc].appointmentIds = update.appointmentIds]
       /\ calls' = [calls EXCEPT ![c].updates = calls[c].updates \ {update}]
  /\ UNCHANGED << appointmentsCollection, petsCollection, clientsCollection,
                  started, returned, screens >>
  /\ UNCHANGED optimizerVars

\* Promise.all has resolved: return appointmentId.
ReturnDeleteAppointment(c) ==
  /\ calls[c].op = "deleteAppointment"
  /\ calls[c].pc = "update"
  /\ calls[c].updates = {}
  /\ returned' = returned \cup {calls[c].appointmentId}
  /\ calls' = [calls EXCEPT ![c] = Idle]
  /\ UNCHANGED << appointmentsCollection, petsCollection, clientsCollection,
                  routesCollection, started, screens >>
  /\ UNCHANGED optimizerVars

\* ------------------------------------------------------- PetModel.deletePet
\* deletePet(petId) up to the end of its first await: the pet's appointments
\* have been queried.
CallDeletePet(c) ==
  /\ CanStart(c)
  /\ started' = started + 1
  /\ \E petId \in DOMAIN InitialPets :
       calls' = [calls EXCEPT ![c] =
                   [op |-> "deletePet", petId |-> petId,
                    pending |-> { a \in DOMAIN appointmentsCollection :
                                    appointmentsCollection[a].petId = petId }]]
  /\ UNCHANGED << appointmentsCollection, petsCollection, clientsCollection,
                  routesCollection, returned, screens >>
  /\ UNCHANGED optimizerVars

\* One of the appointment deletions of Promise.all takes effect.
DeletePetAppointment(c) ==
  /\ calls[c].op = "deletePet"
  /\ \E a \in calls[c].pending :
       /\ appointmentsCollection' = Remove(appointmentsCollection, a)
       /\ calls' = [calls EXCEPT ![c].pending = calls[c].pending \ {a}]
  /\ UNCHANGED << petsCollection, clientsCollection, routesCollection,
                  started, returned, screens >>
  /\ UNCHANGED optimizerVars

\* Promise.all has resolved: the pet document is deleted and deletePet returns.
DeletePetDocument(c) ==
  /\ calls[c].op = "deletePet"
  /\ calls[c].pending = {}
  /\ petsCollection' = Remove(petsCollection, calls[c].petId)
  /\ calls' = [calls EXCEPT ![c] = Idle]
  /\ UNCHANGED << appointmentsCollection, clientsCollection, routesCollection,
                  started, returned, screens >>
  /\ UNCHANGED optimizerVars

\* ------------------------------------------------- ClientModel.deleteClient
\* deleteClient(clientId) up to the end of its first await: the client's pets
\* have been queried.
CallDeleteClient(c) ==
  /\ CanStart(c)
  /\ started' = started + 1
  /\ \E clientId \in DOMAIN InitialClients :
       calls' = [calls EXCEPT ![c] =
                   [op |-> "deleteClient", clientId |-> clientId,
                    pending |-> { p \in DOMAIN petsCollection :
                                    petsCollection[p].clientId = clientId }]]
  /\ UNCHANGED << appointmentsCollection, petsCollection, clientsCollection,
                  routesCollection, returned, screens >>
  /\ UNCHANGED optimizerVars

\* One of the pet deletions of Promise.all takes effect: the pet document
\* only, not the pet's appointments.
DeleteClientPet(c) ==
  /\ calls[c].op = "deleteClient"
  /\ \E p \in calls[c].pending :
       /\ petsCollection' = Remove(petsCollection, p)
       /\ calls' = [calls EXCEPT ![c].pending = calls[c].pending \ {p}]
  /\ UNCHANGED << appointmentsCollection, clientsCollection, routesCollection,
                  started, returned, screens >>
  /\ UNCHANGED optimizerVars

\* Promise.all has resolved: the client document is deleted.
DeleteClientDocument(c) ==
  /\ calls[c].op = "deleteClient"
  /\ calls[c].pending = {}
  /\ clientsCollection' = Remove(clientsCollection, calls[c].clientId)
  /\ calls' = [calls EXCEPT ![c] = Idle]
  /\ UNCHANGED << appointmentsCollection, petsCollection, routesCollection,
                  started, returned, screens >>
  /\ UNCHANGED optimizerVars

\* The store with its initial documents and no operation in progress.
InitStore ==
  /\ entry = "store"
  /\ OptimizerIdle
  /\ appointmentsCollection = InitialAppointments
  /\ petsCollection = InitialPets
  /\ clientsCollection = InitialClients
  /\ routesCollection = << >>
  /\ calls = [c \in Callers |-> Idle]
  /\ started = 0
  /\ returned = {}
  /\ screens = [s \in Screens |-> Mounting]

NextStore ==
  \E c \in Callers :
    \/ CallCreateRoute(c)
    \/ ResolveAdd(c)
    \/ CallDeleteAppointment(c)
    \/ QueryRoutes(c)
    \/ UpdateRoute(c)
    \/ ReturnDeleteAppointment(c)
    \/ CallDeletePet(c)
    \/ DeletePetAppointment(c)
    \/ DeletePetDocument(c)
    \/ CallDeleteClient(c)
    \/ DeleteClientPet(c)
    \/ DeleteClientDocument(c)

SpecStore == InitStore /\ [][NextStore]_vars

\* ============================================================ RoutesScreen
\* The snapshot of getAppointmentsForRouting's query: the user's scheduled
\* appointments of the day, with the data the documents hold.
AppointmentsSnapshot ==
  LET ids == Ascending(DOMAIN appointmentsCollection)
  IN  [k \in DOMAIN ids |->
         [id |-> ids[k],
          clientId |-> appointmentsCollection[ids[k]].clientId,
          date |-> appointmentsCollection[ids[k]].date,
          duration |-> appointmentsCollection[ids[k]].duration]]

HasClient(appointment) == appointment.clientId \in DOMAIN clientsCollection

\* The loop over the snapshot: an appointment is kept, with its client
\* attached, when its client document exists.
AppointmentsWithDetails(snapshot) ==
  LET kept == SelectSeq(snapshot, HasClient)
  IN  [k \in DOMAIN kept |->
         [id |-> kept[k].id, clientId |-> kept[k].clientId,
          client |-> clientsCollection[kept[k].clientId],
          date |-> kept[k].date, duration |-> kept[k].duration]]

\* The route nearestNeighbor builds, as a function of its arguments.
RECURSIVE Tour(_, _)
Tour(current, pool) ==
  IF Len(pool) = 0
    THEN <<>>
    ELSE LET found == FindNearest(current, pool)
             nearestPoint == pool[found.nearestPointIndex]
         IN  <<nearestPoint>> \o Tour(nearestPoint, Splice(pool, found.nearestPointIndex))

\* The stops of the appointments in the order of the tour.
OptimizedRoute(appointments, startingPoint) ==
  Tour(startingPoint, [i \in DOMAIN appointments |-> FormatStop(appointments[i])])

\* optimizeRoute with an end waypoint that can always be built: only the
\* validation of the coordinates throws.
OptimizeRouteThrowsUnlocated(appointments, startingPoint) ==
  \/ startingPoint = Null
  \/ startingPoint.coordinates = Null
  \/ Offending(appointments) # {}

\* Whether optimizeRoute(appointments, startingPoint) throws: on missing
\* coordinates, on a scheduled time it reads that is missing, and on the
\* departureTime it reads from the last stop of a non-empty route.
OptimizeRouteThrows(appointments, startingPoint) ==
  \/ startingPoint = Null
  \/ startingPoint.coordinates = Null
  \/ Offending(appointments) # {}
  \/ /\ Len(appointments) > 0
     /\ LET tour == OptimizedRoute(appointments, startingPoint)
        IN  \/ ~IsSome(tour[1].time)
            \/ \E index \in 2..Len(tour) : ~IsSome(tour[index - 1].time)
            \/ ~IsSome(Field(tour[Len(tour)], "departureTime"))

\* getCompleteRoute(routeId): the route document with those of its
\* appointments whose document and whose client document exist.
CompleteRoute(routeId) ==
  LET appointmentIds == routesCollection[routeId].appointmentIds
      Exists(a) == /\ a \in DOMAIN appointmentsCollection
                   /\ appointmentsCollection[a].clientId \in DOMAIN clientsCollection
  IN  [id |-> routeId, appointmentIds |-> appointmentIds,
       appointments |-> SelectSeq(appointmentIds, Exists)]

\* The routes getRouteByDate's query matches.
RoutesOfToday ==
  { r \in DOMAIN routesCollection :
      /\ routesCollection[r].userId = CurrentUser
      /\ routesCollection[r].routeDate = TodayDate }

\* The flag left as it is when the handler ends.
FinallySkipped(optimizing) == optimizing

\* finally { setOptimizing(false) }
FinallyOptimizing(optimizing) == FALSE

\* The catch block and the finally block of handleCreateRoute.
Caught(screen) ==
  [screen EXCEPT !.pc = "ready", !.optimizing = FinallyOptimizing(screen.optimizing)]

\* handleCreateRoute from the return of getAppointmentsForRouting to its
\* next await or to its end.
AfterAppointments(screen, appointments) ==
  IF Len(appointments) = 0
    THEN [screen EXCEPT !.pc = "ready", !.optimizing = FinallyOptimizing(FALSE)]
    ELSE IF OptimizeRouteThrows(appointments, StartWith(HomeCoord))
      THEN Caught([screen EXCEPT !.threw = TRUE])
      ELSE LET tour == OptimizedRoute(appointments, StartWith(HomeCoord))
               routeData == [routeDate |-> Some(TodayDate),
                             userId |-> Some(CurrentUser),
                             appointmentIds |->
                               Some([i \in DOMAIN tour |-> tour[i].appointmentId])]
           IN  IF CreateRouteRejects(routeData)
                 THEN Caught([screen EXCEPT !.created = TRUE])
                 ELSE [screen EXCEPT !.created = TRUE, !.pc = "add",
                                     !.routeData = routeData]

\* loadTodayRoute, run by the effect when the screen mounts: getRouteByDate
\* and, for a route it finds, getCompleteRoute; a read may be rejected.
LoadTodayRoute(s) ==
  /\ screens[s].pc = "loading"
  /\ \E rejected \in BOOLEAN :
       \E existing \in (IF RoutesOfToday = {} THEN {0} ELSE RoutesOfToday) :
         screens' = [screens EXCEPT
                       ![s].pc = "ready",
                       ![s].loading = FALSE,
                       ![s].route = IF rejected \/ existing = 0
                                      THEN Null
                                      ELSE CompleteRoute(existing)]
  /\ UNCHANGED << appointmentsCollection, petsCollection, clientsCollection,
                  routesCollection, calls, started, returned >>
  /\ UNCHANGED optimizerVars

\* The button is pressed: it is rendered while no route is displayed and is
\* disabled while optimizing.  handleCreateRoute runs to its first await.
PressCreateRoute(s) ==
  /\ screens[s].pc = "ready"
  /\ ~screens[s].loading
  /\ screens[s].route = Null
  /\ ~screens[s].optimizing
  /\ screens' = [screens EXCEPT
                   ![s].pc = "getAppointments",
                   ![s].optimizing = TRUE,
                   ![s].threw = FALSE,
                   ![s].created = FALSE,
                   ![s].routeBefore = screens[s].route,
                   ![s].overlapped =
                     \E t \in Screens \ {s} :
                       screens[t].pc \in {"getAppointments", "getClients", "add",
                                          "getCompleteRoute"}]
  /\ UNCHANGED << appointmentsCollection, petsCollection, clientsCollection,
                  routesCollection, calls, started, returned >>
  /\ UNCHANGED optimizerVars

\* The await handleCreateRoute is suspended at ends, by resolving or by
\* rejecting, and the handler runs to its next await or to its end.
HandleCreateRouteResume(s) ==
  /\ screens[s].pc \in {"getAppointments", "getClients", "add", "getCompleteRoute"}
  /\ \E rejected \in BOOLEAN :
       LET screen == screens[s] IN
         IF rejected
           THEN /\ screens' = [screens EXCEPT ![s] = Caught(screen)]
                /\ UNCHANGED routesCollection
           ELSE CASE screen.pc = "getAppointments" ->
                       /\ screens' = [screens EXCEPT ![s].pc = "getClients",
                                                     ![s].snapshot = AppointmentsSnapshot]
                       /\ UNCHANGED routesCollection
                  [] screen.pc = "getClients" ->
                       /\ screens' = [screens EXCEPT ![s] =
                            AfterAppointments(screen, AppointmentsWithDetails(screen.snapshot))]
                       /\ UNCHANGED routesCollection
                  [] screen.pc = "add" ->
                       /\ routesCollection' =
                            Append(routesCollection, RouteDocument(screen.routeData))
                       /\ screens' = [screens EXCEPT ![s].pc = "getCompleteRoute",
                                                     ![s].newRoute = Len(routesCollection) + 1]
                  [] screen.pc = "getCompleteRoute" ->
                       /\ screens' = [screens EXCEPT ![s] =
                            Caught([screen EXCEPT !.route = CompleteRoute(screen.newRoute)])]
                       /\ UNCHANGED routesCollection
  /\ UNCHANGED << appointmentsCollection, petsCollection, clientsCollection,
                  calls, started, returned >>
  /\ UNCHANGED optimizerVars

\* Two screens mount over a store with any of the appointments, with or
\* without the client document, and no route.
InitScreens ==
  /\ entry = "RoutesScreen"
  /\ OptimizerIdle
  /\ \E ids \in SUBSET DOMAIN InitialAppointments :
       appointmentsCollection = [a \in ids |-> InitialAppointments[a]]
  /\ petsCollection = InitialPets
  /\ \E ids \in SUBSET DOMAIN InitialClients :
       clientsCollection = [c \in ids |-> InitialClients[c]]
  /\ routesCollection = << >>
  /\ calls = [c \in Callers |-> Idle]
  /\ started = 0
  /\ returned = {}
  /\ screens = [s \in Screens |-> Mounting]

NextScreens ==
  \E s \in Screens :
    \/ LoadTodayRoute(s)
    \/ PressCreateRoute(s)
    \/ HandleCreateRouteResume(s)

SpecScreens == InitScreens /\ [][NextScreens]_vars

\* Every await of a screen ends, by resolving or by rejecting; when the
\* button is pressed is up to the user.
SpecScreensFair ==
  /\ InitScreens
  /\ [][NextScreens]_vars
  /\ \A s \in Screens :
       WF_vars(LoadTodayRoute(s)) /\ WF_vars(HandleCreateRouteResume(s))

\* ================================================================ properties
\* Helpers of the properties below.
StartHasCoordinates == userStartPoint # Null /\ userStartPoint.coordinates # Null

\* nearestNeighbor was called directly and has returned.
DirectReturned == entry = "nearestNeighbor" /\ pc = "done" /\ outcome = "returned"

\* optimizeRoute has finished, by returning or by throwing.
OptimizeFinished == entry = "optimizeRoute" /\ pc = "done"

\* nearestNeighbor has returned inside optimizeRoute.
InsideOptimizeAfterTour ==
  pc \in {"start_waypoint", "appointment_waypoints", "end_waypoint", "return"}

\* Every element of input occurs exactly once in output, and nothing else does.
IsPermutation(output, input) ==
  /\ Len(output) = Len(input)
  /\ \A i \in DOMAIN input :
       Cardinality({ k \in DOMAIN output : output[k] = input[i] }) = 1

\* distance(start, route[1]) + distance(route[1], route[2]) + ...
RECURSIVE LegSum(_, _)
LegSum(from, stops) ==
  IF stops = <<>>
    THEN 0
    ELSE calculateDistance(from.coordinates, Head(stops).coordinates)
           + LegSum(Head(stops), Tail(stops))

\* The appointment has no client, no client address or no address coordinates.
LacksCoordinates(appointment) ==
  \/ appointment.client = Null
  \/ appointment.client.address = Null
  \/ appointment.client.address.coordinates = Null

\* Every appointment carries client coordinates, a scheduled time and a duration.
ValidAppointments(appointments) ==
  \A i \in DOMAIN appointments :
    /\ ~LacksCoordinates(appointments[i])
    /\ IsSome(appointments[i].date)
    /\ IsSome(appointments[i].duration)

IsCompleteRouteResult(r) ==
  /\ r # Null
  /\ DOMAIN r = {"waypoints", "optimizedRoute", "appointmentIds", "totalDistance",
                 "estimatedTravelTime", "startPoint", "endPoint"}

\* optimizeRoute followed step by step throws exactly when OptimizeRouteThrows
\* says it does.
OptimizeRouteThrowsAgrees ==
  OptimizeFinished
    => ((outcome = "threw") <=> OptimizeRouteThrows(callerBefore, userStartPoint))

\* C1: for a starting point with coordinates and a non-empty list of stops,
\* the route nearestNeighbor returns is a permutation of the input stops:
\* same length, every input stop exactly once.
C1_RouteIsPermutation ==
  /\ (DirectReturned /\ StartHasCoordinates /\ Len(callerBefore) > 0)
       => IsPermutation(result.route, callerBefore)
  /\ (InsideOptimizeAfterTour /\ Len(heap["destinations"]) > 0)
       => IsPermutation(route, heap["destinations"])

\* A direct call has returned three stops in an order other than the input's.
C1_Witness ==
  /\ DirectReturned /\ StartHasCoordinates
  /\ Len(callerBefore) >= 3
  /\ result.route # callerBefore

\* C2 (as claimed): on an input whose starting point has coordinates and
\* whose appointments all have client coordinates, a scheduled time and a
\* duration, optimizeRoute returns a complete RouteResult and does not
\* fail, for non-empty lists as for the empty one.
C2_ValidInputReturns ==
  (OptimizeFinished /\ StartHasCoordinates /\ ValidAppointments(callerBefore))
    => (outcome = "returned" /\ IsCompleteRouteResult(result))

\* C3: in every iteration of the nearestNeighbor loop the stop appended to
\* the route is at a distance from the current position that is at most
\* the distance of every stop in the unvisited pool.
C3_ChoosesNearest ==
  [][ (pc = "nn_loop" /\ Len(route') = Len(route) + 1)
        => \A i \in DOMAIN unvisited :
             calculateDistance(currentPoint.coordinates, route'[Len(route')].coordinates)
               <= calculateDistance(currentPoint.coordinates, unvisited[i].coordinates) ]_vars

\* A stop has been chosen and the remaining pool holds stops at different
\* distances from it.
C3_Witness ==
  /\ pc = "nn_loop" /\ Len(route) >= 1 /\ Len(unvisited) >= 2
  /\ \E i, j \in DOMAIN unvisited :
       calculateDistance(currentPoint.coordinates, unvisited[i].coordinates)
         < calculateDistance(currentPoint.coordinates, unvisited[j].coordinates)

\* C4: the totalDistance nearestNeighbor returns, which optimizeRoute passes
\* through, is the sum of distance(start, route[0]) and the distances
\* between consecutive stops of the route, with no other leg.
C4_TotalIsSumOfLegs ==
  /\ DirectReturned => result.totalDistance = LegSum(userStartPoint, result.route)
  /\ InsideOptimizeAfterTour => totalDistance = LegSum(userStartPoint, route)
  /\ (OptimizeFinished /\ outcome = "returned")
       => result.totalDistance = LegSum(userStartPoint, result.optimizedRoute)

\* A direct call has returned a route of three legs of positive length whose
\* last stop is not at the start.
C4_Witness ==
  /\ DirectReturned /\ StartHasCoordinates
  /\ Len(result.route) >= 3
  /\ result.totalDistance > 0
  /\ result.route[Len(result.route)].coordinates # Null
  /\ calculateDistance(result.route[Len(result.route)].coordinates,
                       userStartPoint.coordinates) > 0

\* C5 (as claimed): for every valid input of n appointments, n >= 0,
\* optimizeRoute returns a RouteResult with
\* waypoints.length = optimizedRoute.length + 2 = n + 2.
C5_WaypointCount ==
  (OptimizeFinished /\ StartHasCoordinates /\ ValidAppointments(callerBefore))
    => /\ result # Null
       /\ Len(result.waypoints) = Len(result.optimizedRoute) + 2
       /\ Len(result.waypoints) = Len(callerBefore) + 2

\* C6: when the starting point lacks coordinates, or an appointment at any
\* position has no client, no address or no coordinates, optimizeRoute
\* throws a validation error and returns nothing, not even a partial result.
C6_MissingCoordinatesFail ==
  (OptimizeFinished
     /\ (~StartHasCoordinates
           \/ \E i \in DOMAIN callerBefore : LacksCoordinates(callerBefore[i])))
    => /\ outcome = "threw"
       /\ error.name = "Error"
       /\ result = Null
       /\ waypoints = <<>>

\* optimizeRoute threw on a list whose first appointment is valid and whose
\* last one has no coordinates.
C6_Witness ==
  /\ OptimizeFinished /\ StartHasCoordinates /\ outcome = "threw"
  /\ Len(callerBefore) >= 2
  /\ ~LacksCoordinates(callerBefore[1])
  /\ LacksCoordinates(callerBefore[Len(callerBefore)])

\* C7: for an empty appointment list and a valid starting point,
\* optimizeRoute returns an empty optimizedRoute, totalDistance 0,
\* estimatedTravelTime 0 and exactly two waypoints, a start and an end.
C7_EmptyList ==
  (OptimizeFinished /\ StartHasCoordinates /\ Len(callerBefore) = 0)
    => /\ outcome = "returned"
       /\ result.optimizedRoute = <<>>
       /\ result.totalDistance = 0
       /\ result.estimatedTravelTime = 0
       /\ Len(result.waypoints) = 2
       /\ result.waypoints[1].type = "start"
       /\ result.waypoints[2].type = "end"

\* optimizeRoute has returned for an empty list.
C7_Witness ==
  /\ OptimizeFinished /\ Len(callerBefore) = 0
  /\ outcome = "returned"
  /\ Len(result.waypoints) = 2

C9_CallerListUntouched ==
  /\ heap[callerRef] = callerBefore
  /\ pc = "nn_loop" => unvisitedRef # callerRef

\* A direct call has returned after removing two or more stops from its pool.
C9_Witness ==
  /\ DirectReturned
  /\ Len(result.route) >= 2
  /\ Len(heap["unvisited"]) = 0
  /\ Len(heap["destinations"]) >= 2

\* C10: once the appointment waypoints of a non-empty route are built, and
\* in every result with a stop, the arrivalTime of the first appointment
\* waypoint is the scheduled time of the first stop of the route.
C10_FirstArrivalIsScheduled ==
  /\ (pc \in {"end_waypoint", "return"} /\ Len(route) >= 1)
       => waypoints[2].arrivalTime = route[1].time
  /\ (OptimizeFinished /\ outcome = "returned" /\ Len(result.optimizedRoute) >= 1)
       => result.waypoints[2].arrivalTime = result.optimizedRoute[1].time

\* The appointment waypoints of a two-stop route with a positive travel
\* time have been built.
C10_Witness ==
  /\ pc = "end_waypoint"
  /\ Len(route) >= 2
  /\ travelTime > 0
  /\ waypoints[2].type = "appointment"

\* The appointment waypoints among the elements built so far.
AppointmentWaypointsOf(ws) == { k \in DOMAIN ws : ws[k].type = "appointment" }

\* C11 (as claimed): every appointment waypoint has arrivalTime <=
\* departureTime, whatever duration the appointment record carries.
C11_ArrivalNotAfterDeparture ==
  /\ \A k \in AppointmentWaypointsOf(waypoints) :
       Get(waypoints[k].arrivalTime) <= Get(waypoints[k].departureTime)
  /\ (OptimizeFinished /\ outcome = "returned")
       => \A k \in AppointmentWaypointsOf(result.waypoints) :
            Get(result.waypoints[k].arrivalTime) <= Get(result.waypoints[k].departureTime)

\* An appointment of the caller's list has no scheduled time or no duration.
LacksScheduling(appointment) ==
  ~IsSome(appointment.date) \/ ~IsSome(appointment.duration)

\* C12 (as claimed): when every appointment is located and one of them has
\* no scheduled time or no duration, optimizeRoute throws a validation
\* error that names that appointment; the field is not defaulted and the
\* failure is of no other kind.
C12_MissingSchedulingFails ==
  (OptimizeFinished /\ StartHasCoordinates
     /\ (\A i \in DOMAIN callerBefore : ~LacksCoordinates(callerBefore[i]))
     /\ (\E i \in DOMAIN callerBefore : LacksScheduling(callerBefore[i])))
    => /\ outcome = "threw"
       /\ error.name = "Error"
       /\ \E i \in DOMAIN callerBefore :
            LacksScheduling(callerBefore[i]) /\ error.at = Some(callerBefore[i].id)

\* C13 (as claimed): the result of a valid call lists the route in three
\* agreeing ways: waypoints[0] is the start, the last waypoint the end,
\* waypoints[i+1] is the appointment waypoint of optimizedRoute[i] and
\* appointmentIds[i] is its appointment id.
C13_OrderingsAgree ==
  (OptimizeFinished /\ StartHasCoordinates /\ ValidAppointments(callerBefore))
    => /\ result # Null
       /\ result.waypoints[1].type = "start"
       /\ result.waypoints[Len(result.waypoints)].type = "end"
       /\ \A i \in DOMAIN result.optimizedRoute :
            /\ result.waypoints[i + 1].type = "appointment"
            /\ result.waypoints[i + 1].appointmentId = result.optimizedRoute[i].appointmentId
            /\ result.appointmentIds[i] = result.optimizedRoute[i].appointmentId

\* C14: calculateDistance is symmetric, and zero on identical points: for
\* all coordinates a and b, distance(a, b) = distance(b, a) and
\* distance(a, a) = 0.
C14_DistanceSymmetric ==
  /\ (pc = "measured" /\ coord1 # Null /\ coord2 # Null) => forward = backward
  /\ (pc \in {"measure_back", "measured"} /\ coord1 # Null /\ coord1 = coord2)
       => forward = Some(0)

\* Both directions have been measured between two points that differ in
\* latitude and in longitude.
C14_Witness ==
  /\ pc = "measured" /\ coord1 # Null /\ coord2 # Null
  /\ coord1.latitude # coord2.latitude
  /\ coord1.longitude # coord2.longitude
  /\ Get(forward) > 0

\* The start waypoint and the appointment waypoints of a non-empty route
\* have been evaluated.
AppointmentWaypointsBuilt ==
  pc \in {"end_waypoint", "return"} /\ Len(route) >= 1

\* travelTimeInMinutes / route.length, in milliseconds.
LegShareOfRoute == (travelTime * 60000) \div Len(route)

\* C15 (as claimed): the arrivalTime of every appointment waypoint after the
\* first is the departureTime of the waypoint before it plus legShare.
C15_ArrivalFromPreviousDeparture ==
  AppointmentWaypointsBuilt
    => \A k \in 2..Len(route) :
         Get(waypoints[k + 1].arrivalTime)
           = Get(waypoints[k].departureTime) + LegShareOfRoute

\* C15 (amended): the arrivalTime of the appointment waypoint of stop k,
\* k >= 1, is the scheduled time of stop k-1 plus the duration of stop k-1
\* plus legShare; for k = 1 that is the departureTime of the waypoint
\* before it plus legShare.
C15_ArrivalFromPreviousSchedule ==
  AppointmentWaypointsBuilt
    => /\ \A k \in 2..Len(route) :
            Get(waypoints[k + 1].arrivalTime)
              = Get(route[k - 1].time) + Get(route[k - 1].duration) * 60000
                  + LegShareOfRoute
       /\ Len(route) >= 2
            => Get(waypoints[3].arrivalTime)
                 = Get(waypoints[2].departureTime) + LegShareOfRoute

\* Three appointment waypoints are built and the third does not arrive a
\* leg after the second one's departure.
C15_Witness ==
  /\ AppointmentWaypointsBuilt
  /\ Len(route) >= 3
  /\ Get(waypoints[4].arrivalTime)
       # Get(waypoints[3].departureTime) + LegShareOfRoute

\* C16 (as claimed): the result of a valid call with at least one stop ends
\* with an end waypoint whose departureTime is null and whose arrivalTime is
\* the departureTime of the last appointment waypoint plus legShare.
C16_EndWaypointTimes ==
  (OptimizeFinished /\ StartHasCoordinates /\ ValidAppointments(callerBefore)
     /\ Len(callerBefore) >= 1)
    => /\ result # Null
       /\ LET ws == result.waypoints
              n == Len(ws)
              legShare == (result.estimatedTravelTime * 60000)
                            \div Len(result.optimizedRoute)
          IN  /\ ws[n].type = "end"
              /\ ws[n].departureTime = None
              /\ ws[n].arrivalTime = Some(Get(ws[n - 1].departureTime) + legShare)

\* C17: for a non-empty route, the start waypoint has arrivalTime null and
\* departureTime equal to the scheduled time of the first stop of the route
\* minus legShare, which is never later than the first appointment's arrival.
C17_StartWaypointTimes ==
  (pc \in {"appointment_waypoints", "end_waypoint", "return"} /\ Len(route) >= 1)
    => /\ waypoints[1].type = "start"
       /\ waypoints[1].arrivalTime = None
       /\ waypoints[1].departureTime = Some(Get(route[1].time) - LegShareOfRoute)
       /\ Len(waypoints) >= 2
            => Get(waypoints[1].departureTime) <= Get(waypoints[2].arrivalTime)

\* The start waypoint of a route of two or more stops leaves before the
\* first scheduled time.
C17_Witness ==
  /\ pc = "end_waypoint"
  /\ Len(route) >= 2
  /\ Get(waypoints[1].departureTime) < Get(route[1].time)
  /\ Get(waypoints[1].departureTime) < Get(waypoints[2].arrivalTime)

\* The list nearestNeighbor was given.
TourInput == IF entry = "nearestNeighbor" THEN callerBefore ELSE heap["destinations"]

\* The distance the scan measures for the pool element at position i.
ScanDistance(i) ==
  calculateDistance(currentPoint.coordinates, unvisited[i].coordinates)

\* C18: when several unvisited stops are at the same minimal distance from
\* the current position, the one with the lowest index in the current pool
\* is selected.
C18_TieBreaksToFirst ==
  [][ (pc = "nn_loop" /\ Len(route') = Len(route) + 1)
        => LET minimal == { i \in DOMAIN unvisited :
                              \A j \in DOMAIN unvisited : ScanDistance(i) <= ScanDistance(j) }
           IN  route'[Len(route')] = unvisited[Min(minimal)] ]_vars

\* The first stop was chosen while a later stop of the list, still in the
\* pool, is at the same positive distance from the start.
C18_Witness ==
  /\ pc = "nn_loop" /\ Len(route) = 1 /\ StartHasCoordinates
  /\ route[1].coordinates # Null
  /\ calculateDistance(userStartPoint.coordinates, route[1].coordinates) > 0
  /\ \E i \in DOMAIN unvisited :
       /\ unvisited[i].coordinates # Null
       /\ unvisited[i].id > route[1].id
       /\ calculateDistance(userStartPoint.coordinates, unvisited[i].coordinates)
            = calculateDistance(userStartPoint.coordinates, route[1].coordinates)

\* C19: at the start of every iteration of the loop the route and the
\* unvisited pool are disjoint and together hold every input stop exactly
\* once.
C19_RouteAndPoolPartitionInput ==
  pc = "nn_loop"
    => /\ \A i \in DOMAIN route : \A j \in DOMAIN unvisited : route[i] # unvisited[j]
       /\ IsPermutation(route \o unvisited, TourInput)

\* The loop is between two iterations, with stops on both sides.
C19_Witness ==
  /\ pc = "nn_loop"
  /\ Len(route) >= 1
  /\ Len(unvisited) >= 2

\* C20: every iteration of the loop removes exactly one stop from the pool
\* and appends one to the route, the loop is left only with the pool empty
\* and as many stops in the route as the input has, and a call that has
\* entered the loop returns.
C20_LoopTerminates ==
  /\ [][ (pc = "nn_loop" /\ route' # route)
           => /\ Len(unvisited') = Len(unvisited) - 1
              /\ Len(route') = Len(route) + 1 ]_vars
  /\ [][ (pc = "nn_loop" /\ pc' # "nn_loop")
           => /\ Len(unvisited) = 0
              /\ Len(route) = Len(callerBefore) ]_vars
  /\ (pc = "nn_loop") ~> (pc = "done")

\* A direct call on three stops has left the loop and returned.
C20_Witness ==
  /\ entry = "nearestNeighbor" /\ pc = "done"
  /\ Len(callerBefore) >= 3
  /\ Len(route) = Len(callerBefore)
  /\ Len(heap["unvisited"]) = 0

\* The distance of the leg that ends at position k of the route.
LegDistance(k) ==
  calculateDistance((IF k = 1 THEN userStartPoint ELSE route[k - 1]).coordinates,
                    route[k].coordinates)

\* C21: estimatedTravelTime is round(totalDistance / 30 * 60) minutes, that
\* is the whole number of minutes nearest to one minute per 500 metres, and
\* every waypoint time is built with the same share, the travel time
\* divided by the number of stops, whatever the length of the leg.
C21_TravelTimeAndLegShare ==
  /\ (pc \in {"appointment_waypoints", "end_waypoint", "return"}
        \/ (OptimizeFinished /\ outcome = "returned"))
       => /\ 500 * travelTime - 250 <= totalDistance
          /\ totalDistance < 500 * travelTime + 250
  /\ (OptimizeFinished /\ outcome = "returned")
       => result.estimatedTravelTime = travelTime
  /\ AppointmentWaypointsBuilt
       => /\ Get(route[1].time) - Get(waypoints[1].departureTime) = LegShareOfRoute
          /\ \A k \in 2..Len(route) :
               Get(waypoints[k + 1].arrivalTime)
                 - (Get(route[k - 1].time) + Get(route[k - 1].duration) * 60000)
                 = LegShareOfRoute

\* The waypoints of three stops are built, the legs into the second and the
\* third stop differ in length, and the total distance is not a whole
\* number of minutes of travel, so the rounding acts.
C21_Witness ==
  /\ AppointmentWaypointsBuilt
  /\ Len(route) >= 3
  /\ LegDistance(2) # LegDistance(3)
  /\ LegDistance(2) > 0
  /\ totalDistance % 500 # 0
  /\ travelTime > 0

\* C22: calculateDistance returns 0, and does return, when its first or its
\* second coordinate argument is absent.
C22_AbsentCoordinateIsZero ==
  /\ (pc \in {"measure_back", "measured"} /\ (coord1 = Null \/ coord2 = Null))
       => forward = Some(0)
  /\ (pc = "measured" /\ (coord1 = Null \/ coord2 = Null))
       => backward = Some(0)

\* Both directions have been measured with exactly one coordinate absent.
C22_Witness ==
  /\ pc = "measured"
  /\ coord1 = Null /\ coord2 # Null
  /\ forward = Some(0) /\ backward = Some(0)

\* The stops formatAppointmentsForRouting has built, once it has returned.
StopsBuilt ==
  IF entry = "optimizeRoute" /\ pc \notin {"format", "done"}
    THEN heap["destinations"]
    ELSE <<>>

\* C23 (as claimed): every stop formatAppointmentsForRouting builds has a
\* positive duration, the appointment's own when it specifies one and 60
\* minutes when it specifies none.
C23_StopDurationPositive ==
  \A i \in DOMAIN StopsBuilt :
    /\ IsSome(StopsBuilt[i].duration)
    /\ Get(StopsBuilt[i].duration) > 0
    /\ StopsBuilt[i].duration
         = (IF IsSome(callerBefore[i].duration) THEN callerBefore[i].duration ELSE Some(60))

\* The position of the first appointment of the list without coordinates.
IsFirstOffender(appointments, i) ==
  /\ LacksCoordinates(appointments[i])
  /\ \A j \in 1..(i - 1) : ~LacksCoordinates(appointments[j])

\* C24: a starting point without coordinates is reported whatever the
\* appointments are, before any of them is examined; otherwise, when
\* appointments lack coordinates, the error carries the scheduled time of
\* the first of them in input order.
C24_FirstDetectionReported ==
  /\ (OptimizeFinished /\ ~StartHasCoordinates)
       => /\ outcome = "threw"
          /\ error.message = "Invalid starting point. Must include coordinates."
          /\ error.at = None
  /\ (OptimizeFinished /\ StartHasCoordinates)
       => \A i \in DOMAIN callerBefore :
            IsFirstOffender(callerBefore, i)
              => /\ outcome = "threw"
                 /\ error.message = "Missing coordinates for appointment at"
                 /\ error.at = callerBefore[i].date

\* optimizeRoute threw on a list of three appointments whose second and third
\* lack coordinates and are scheduled at different times.
C24_Witness ==
  /\ OptimizeFinished /\ StartHasCoordinates /\ outcome = "threw"
  /\ Len(callerBefore) = 3
  /\ ~LacksCoordinates(callerBefore[1])
  /\ LacksCoordinates(callerBefore[2])
  /\ LacksCoordinates(callerBefore[3])
  /\ callerBefore[2].date # callerBefore[3].date
  /\ error.at = callerBefore[2].date

\* No operation of a caller is in progress.
AllReturned == \A c \in Callers : calls[c] = Idle

\* C25 (as claimed): when every createRoute, deleteAppointment, deletePet and
\* deleteClient that was started has run to completion, every id in the
\* appointmentIds of a stored route is the id of an appointment document
\* that exists.
C25_RouteIdsReferToAppointments ==
  AllReturned
    => \A r \in DOMAIN routesCollection :
         \A k \in DOMAIN routesCollection[r].appointmentIds :
           routesCollection[r].appointmentIds[k] \in DOMAIN appointmentsCollection

\* C26 (as claimed): once deleteAppointment(id) has returned, no stored
\* route lists id in its appointmentIds, whatever ran between its steps.
C26_DeletedIdLeavesRoutes ==
  \A appointmentId \in returned :
    \A r \in DOMAIN routesCollection :
      ~Contains(routesCollection[r].appointmentIds, appointmentId)

\* C27 (as claimed): every route document in the store has a non-empty
\* appointmentIds list, after any createRoute and deleteAppointment
\* operations.
C27_RoutesNonEmpty ==
  \A r \in DOMAIN routesCollection : Len(routesCollection[r].appointmentIds) > 0

C29_OptimizingIsReset ==
  /\ [](\A s \in Screens :
          screens[s].threw
            => /\ ~screens[s].created
               /\ screens[s].route = screens[s].routeBefore
               /\ Len(routesCollection) = 0)
  /\ \A s \in Screens : screens[s].optimizing ~> ~screens[s].optimizing

\* A run that found appointments has ended with optimizeRoute's exception
\* caught and the flag reset.
C29_Witness ==
  \E s \in Screens :
    /\ screens[s].pc = "ready"
    /\ screens[s].threw
    /\ Len(screens[s].snapshot) > 0
    /\ ~screens[s].optimizing
    /\ ~screens[s].created

\* C30: in a direct call of nearestNeighbor a stop without coordinates is at
\* distance 0 from every position: while one is in the pool no stop at a
\* positive distance is chosen, the leg into a stop without coordinates and
\* the leg out of it add 0 to totalDistance, and the call returns a
\* permutation of its input.
C30_StopWithoutCoordinates ==
  /\ [][ (entry = "nearestNeighbor" /\ pc = "nn_loop" /\ Len(route') = Len(route) + 1)
           => /\ (\E i \in DOMAIN unvisited : unvisited[i].coordinates = Null)
                   => totalDistance' = totalDistance
              /\ route'[Len(route')].coordinates = Null
                   => totalDistance' = totalDistance
              /\ currentPoint.coordinates = Null
                   => totalDistance' = totalDistance ]_vars
  /\ [][ (entry = "nearestNeighbor" /\ pc = "nn_loop" /\ pc' = "done"
             /\ \E i \in DOMAIN callerBefore : callerBefore[i].coordinates = Null)
           => /\ outcome' = "returned"
              /\ IsPermutation(result'.route, callerBefore) ]_vars

\* A direct call from a starting point with coordinates has returned three
\* stops: the one without coordinates first, ahead of a stop that comes
\* before it in the input and lies at a positive distance from the start,
\* and a last leg of positive length.
C30_Witness ==
  /\ DirectReturned /\ StartHasCoordinates
  /\ Len(result.route) = 3
  /\ result.route[1].coordinates = Null
  /\ callerBefore[1].coordinates # Null
  /\ calculateDistance(userStartPoint.coordinates, callerBefore[1].coordinates) > 0
  /\ result.route[2] = callerBefore[1]
  /\ result.totalDistance > 0

====
